---- MODULE Spec2Model ----
(***************************************************************************)
(* Model of the story-to-reel pipeline: ScriptGenerator.generate (the      *)
(* script reconciler), the per-scene asset binding loop of                 *)
(* generate_video_from_text, and MoviePyVideoComposer.compose.             *)
(*                                                                         *)
(* Durations are fixed-point numbers counted in ticks of 0.05 s, so that   *)
(* 0.1 s is 2 ticks and 3.0 s is 60 ticks; every duration of the model is  *)
(* finite.                                                                 *)
(***************************************************************************)
EXTENDS Integers, Sequences, FiniteSets, TLC

\* ------------------------------------------------------------------ bounds
MaxScenes == 2
MaxSceneNumber == 2
MaxDuration == 3
MaxTotal == 7
MaxHueSceneNumber == 20
MaxImages == 2

\* --------------------------------------------------------- program constants
\* Field(..., ge=0.1) of Scene.duration_seconds and of
\* VideoScript.total_duration_seconds: 0.1 s = 2 ticks
MIN_DURATION == 2
\* the tolerance of VideoScript.validate_duration: 0.1 s = 2 ticks
DURATION_TOLERANCE == 2
\* scene_data.get("duration_seconds", 3.0): 3.0 s = 60 ticks
DEFAULT_DURATION == 60

\* ------------------------------------------------------------- JSON values
\* A numeric field of the raw document: absent, null, a non-numeric string
\* or a number.  val is 0 for the kinds that carry no number.
JAbsent == [kind |-> "absent", val |-> 0]
JNull == [kind |-> "null", val |-> 0]
JNonNumeric == [kind |-> "non_numeric", val |-> 0]
JNumber(v) == [kind |-> "number", val |-> v]

\* A text field of the raw document: absent or a string.
TAbsent == [kind |-> "absent", val |-> ""]
TString(s) == [kind |-> "string", val |-> s]

DeclaredSceneNumbers == {JAbsent} \cup {JNumber(n) : n \in (0 - 1)..MaxSceneNumber}
DeclaredDurations == {JAbsent, JNull, JNonNumeric} \cup {JNumber(d) : d \in 1..MaxDuration}
DeclaredTotals == {JAbsent, JNonNumeric} \cup {JNumber(t) : t \in (0 - 1)..MaxTotal}
DeclaredDialogues == {TAbsent, TString(""), TString("A")}
DeclaredDisplayTexts == {TAbsent, TString(""), TString("B")}
DeclaredTitles == {TAbsent, TString("T")}

\* The scene entries of the raw documents: every combination of scene
\* number and duration under a spoken dialogue, and every combination of
\* the two text fields under the defaults.
SceneEntries ==
    [scene_number : DeclaredSceneNumbers, dialogue : {TString("A")},
     display_text : {TAbsent}, duration_seconds : DeclaredDurations]
    \cup
    [scene_number : {JAbsent}, dialogue : DeclaredDialogues,
     display_text : DeclaredDisplayTexts, duration_seconds : {JAbsent}]

SceneLists == UNION {[1..n -> SceneEntries] : n \in 0..MaxScenes}

\* The raw documents json.loads can return: has_scenes tells whether the
\* "scenes" key is present.  The declared total varies under a title only.
Documents ==
    [title : {TString("T")}, has_scenes : {TRUE}, scenes : SceneLists,
     total_duration_seconds : DeclaredTotals]
    \cup
    [title : {TAbsent}, has_scenes : {TRUE}, scenes : SceneLists,
     total_duration_seconds : {JAbsent}]
    \cup
    [title : DeclaredTitles, has_scenes : {FALSE}, scenes : {<<>>},
     total_duration_seconds : {JAbsent, JNumber(MaxTotal)}]

EmptyDocument ==
    [title |-> TAbsent, has_scenes |-> FALSE, scenes |-> <<>>,
     total_duration_seconds |-> JAbsent]

\* The inputs of one run: the input text is blank or not, and the provider
\* raises, answers text that is not JSON, or answers a document.
Inputs ==
    [blank : {TRUE}, response : {"document"}, document : {EmptyDocument}]
    \cup
    [blank : {FALSE}, response : {"raises", "invalid_json"}, document : {EmptyDocument}]
    \cup
    [blank : {FALSE}, response : {"document"}, document : Documents]

\* The inputs of the runs of the whole pipeline: fewer documents, with
\* declared scene numbers, spoken or empty dialogue and two durations.
PipelineSceneNumbers == {JNumber(n) : n \in 1..MaxSceneNumber}

PipelineEntries ==
    [scene_number : PipelineSceneNumbers, dialogue : {TString(""), TString("A")},
     display_text : {TAbsent}, duration_seconds : {JAbsent, JNumber(MaxDuration)}]

PipelineDocuments ==
    [title : {TString("T")}, has_scenes : {TRUE},
     scenes : UNION {[1..n -> PipelineEntries] : n \in 0..MaxScenes},
     total_duration_seconds : {JAbsent}]

\* the documents generate rejects after the provider answered: no "scenes"
\* key, no "title" key, and a scene that cannot be built after one that can
PipelineEntry ==
    [scene_number |-> JAbsent, dialogue |-> TString("A"), display_text |-> TAbsent,
     duration_seconds |-> JAbsent]

PipelineMalformedDocuments ==
    {[title |-> TString("T"), has_scenes |-> FALSE, scenes |-> <<>>,
      total_duration_seconds |-> JAbsent],
     [title |-> TAbsent, has_scenes |-> TRUE, scenes |-> <<PipelineEntry>>,
      total_duration_seconds |-> JAbsent],
     [title |-> TString("T"), has_scenes |-> TRUE,
      scenes |-> <<PipelineEntry, [PipelineEntry EXCEPT !.duration_seconds = JNull]>>,
      total_duration_seconds |-> JAbsent]}

PipelineInputs ==
    [blank : {TRUE}, response : {"document"}, document : {EmptyDocument}]
    \cup
    [blank : {FALSE}, response : {"raises", "invalid_json"}, document : {EmptyDocument}]
    \cup
    [blank : {FALSE}, response : {"document"},
     document : PipelineDocuments \cup PipelineMalformedDocuments]

\* ------------------------------------------------------------------ models
NoScript == [title |-> "", scenes |-> <<>>, total_duration_seconds |-> 0]

RECURSIVE SumDurations(_)
SumDurations(scenes) ==
    IF scenes = <<>> THEN 0
    ELSE scenes[1].duration_seconds + SumDurations(Tail(scenes))

Abs(x) == IF x < 0 THEN 0 - x ELSE x

\* validate_duration with the tolerance itself accepted (<= for <)
validate_duration_inclusive(script) ==
    Abs(script.total_duration_seconds - SumDurations(script.scenes)) <= DURATION_TOLERANCE

validate_duration(script) ==
    Abs(script.total_duration_seconds - SumDurations(script.scenes)) < DURATION_TOLERANCE

\* ------------------------------------------------------------------ errors
\* An exception: its type, the chain of its message (outermost first) and,
\* when the message reports a scene, that scene's number.
NoError == [type |-> "", msg |-> <<>>, names_scene |-> FALSE, scene |-> 0]
ValueError(msg) == [type |-> "ValueError", msg |-> msg, names_scene |-> FALSE, scene |-> 0]
RuntimeError(msg) == [type |-> "RuntimeError", msg |-> msg, names_scene |-> FALSE, scene |-> 0]
RuntimeErrorForScene(msg, n) ==
    [type |-> "RuntimeError", msg |-> msg, names_scene |-> TRUE, scene |-> n]

\* --------------------------------------------------- ScriptGenerator.generate
\* float(x) raises TypeError for None and ValueError for a non-numeric string
FloatRaises(j) == j.kind # "number"

\* the + 1 applied to whatever get returns: get("scene_number", idx) + 1
SceneNumberArgShifted(entry, idx) ==
    IF entry.scene_number.kind = "absent" THEN JNumber(idx)
    ELSE IF entry.scene_number.kind = "number" THEN JNumber(entry.scene_number.val + 1)
    ELSE entry.scene_number

\* the position counted from 0: get("scene_number", idx)
SceneNumberArgZeroBased(entry, idx) ==
    IF entry.scene_number.kind = "absent" THEN JNumber(idx - 1) ELSE entry.scene_number

\* scene_data.get("scene_number", idx + 1)
SceneNumberArg(entry, idx) ==
    IF entry.scene_number.kind = "absent" THEN JNumber(idx) ELSE entry.scene_number

\* scene_data.get("dialogue", "")
DialogueArg(entry) ==
    IF entry.dialogue.kind = "absent" THEN "" ELSE entry.dialogue.val

\* scene_data.get("display_text", scene_data.get("dialogue", ""))
DisplayTextArg(entry) ==
    IF entry.display_text.kind = "absent" THEN DialogueArg(entry)
    ELSE entry.display_text.val

\* scene_data.get("duration_seconds", 3.0)
DurationArg(entry) ==
    IF entry.duration_seconds.kind = "absent" THEN JNumber(DEFAULT_DURATION)
    ELSE entry.duration_seconds

\* The message of the exception that building the Scene of an entry raises,
\* "" when the Scene is built: float() of the duration, then the model's
\* validation (scene_number: int, duration_seconds: float with ge=0.1).
SceneError(entry, idx) ==
    IF FloatRaises(DurationArg(entry)) THEN "could not convert duration_seconds to float"
    ELSE IF SceneNumberArg(entry, idx).kind # "number" THEN "validation error for Scene"
    ELSE IF DurationArg(entry).val < MIN_DURATION THEN "validation error for Scene"
    ELSE ""

Scene(entry, idx) ==
    [scene_number |-> SceneNumberArg(entry, idx).val,
     dialogue |-> DialogueArg(entry),
     display_text |-> DisplayTextArg(entry),
     duration_seconds |-> DurationArg(entry).val]

\* the position of the first entry whose Scene cannot be built, 0 if none
FirstBadEntry(entries) ==
    LET bad == {i \in 1..Len(entries) : SceneError(entries[i], i) # ""}
    IN IF bad = {} THEN 0 ELSE CHOOSE i \in bad : \A j \in bad : i <= j

\* The outcome of generate: a script or an exception, with the number of
\* Scene objects built and whether the provider was called on the way.
Returned(script, built) ==
    [ok |-> TRUE, script |-> script, error |-> NoError,
     scenes_built |-> built, provider_called |-> TRUE]
Raised(error, built, called) ==
    [ok |-> FALSE, script |-> NoScript, error |-> error,
     scenes_built |-> built, provider_called |-> called]

\* VideoScript.scenes without min_length=1
ReconcileTotalAllowEmpty(title, scenes, total_arg) ==
    IF FloatRaises(total_arg)
    THEN Raised(ValueError(<<"Script generation failed",
                             "could not convert total_duration_seconds to float">>),
                Len(scenes), TRUE)
    ELSE IF total_arg.val < MIN_DURATION
    THEN Raised(ValueError(<<"Script generation failed",
                             "validation error for VideoScript">>),
                Len(scenes), TRUE)
    ELSE LET video_script == [title |-> title, scenes |-> scenes,
                              total_duration_seconds |-> total_arg.val]
         IN IF validate_duration(video_script)
            THEN Returned(video_script, Len(scenes))
            ELSE Returned([video_script EXCEPT
                              !.total_duration_seconds = SumDurations(scenes)],
                          Len(scenes))

\* the VideoScript returned as constructed, its total never recomputed
ReconcileTotalNoRepair(title, scenes, total_arg) ==
    IF FloatRaises(total_arg)
    THEN Raised(ValueError(<<"Script generation failed",
                             "could not convert total_duration_seconds to float">>),
                Len(scenes), TRUE)
    ELSE IF Len(scenes) < 1 \/ total_arg.val < MIN_DURATION
    THEN Raised(ValueError(<<"Script generation failed",
                             "validation error for VideoScript">>),
                Len(scenes), TRUE)
    ELSE Returned([title |-> title, scenes |-> scenes,
                   total_duration_seconds |-> total_arg.val], Len(scenes))

\* VideoScript(title=..., scenes=scenes, total_duration_seconds=float(total))
\* followed by the repair of the total
ReconcileTotal(title, scenes, total_arg) ==
    IF FloatRaises(total_arg)
    THEN Raised(ValueError(<<"Script generation failed",
                             "could not convert total_duration_seconds to float">>),
                Len(scenes), TRUE)
    ELSE IF Len(scenes) < 1 \/ total_arg.val < MIN_DURATION
    THEN Raised(ValueError(<<"Script generation failed",
                             "validation error for VideoScript">>),
                Len(scenes), TRUE)
    ELSE LET video_script == [title |-> title, scenes |-> scenes,
                              total_duration_seconds |-> total_arg.val]
         IN IF validate_duration(video_script)
            THEN Returned(video_script, Len(scenes))
            ELSE Returned([video_script EXCEPT
                              !.total_duration_seconds = SumDurations(scenes)],
                          Len(scenes))

\* script_data.get("total_duration_seconds", sum(...))
TotalArg(doc, scenes) ==
    IF doc.total_duration_seconds.kind = "absent" THEN JNumber(SumDurations(scenes))
    ELSE doc.total_duration_seconds

BuildScenes(entries) == [i \in 1..Len(entries) |-> Scene(entries[i], i)]

\* the title looked up only when the VideoScript is constructed, after the
\* scenes were built: script_data["title"] raises KeyError
GenerateFromDocumentTitleLate(doc) ==
    IF ~doc.has_scenes
    THEN Raised(ValueError(<<"Script generation failed",
                             "Generated script missing 'scenes' field">>), 0, TRUE)
    ELSE IF FirstBadEntry(doc.scenes) # 0
    THEN Raised(ValueError(<<"Script generation failed",
                             SceneError(doc.scenes[FirstBadEntry(doc.scenes)],
                                        FirstBadEntry(doc.scenes))>>),
                FirstBadEntry(doc.scenes) - 1, TRUE)
    ELSE IF doc.title.kind = "absent"
    THEN Raised(ValueError(<<"Missing required field in generated script", "'title'">>),
                Len(doc.scenes), TRUE)
    ELSE ReconcileTotal(doc.title.val, BuildScenes(doc.scenes),
                        TotalArg(doc, BuildScenes(doc.scenes)))

GenerateFromDocument(doc) ==
    IF ~doc.has_scenes
    THEN Raised(ValueError(<<"Script generation failed",
                             "Generated script missing 'scenes' field">>), 0, TRUE)
    ELSE IF doc.title.kind = "absent"
    THEN Raised(ValueError(<<"Script generation failed",
                             "Generated script missing 'title' field">>), 0, TRUE)
    ELSE IF FirstBadEntry(doc.scenes) # 0
    THEN Raised(ValueError(<<"Script generation failed",
                             SceneError(doc.scenes[FirstBadEntry(doc.scenes)],
                                        FirstBadEntry(doc.scenes))>>),
                FirstBadEntry(doc.scenes) - 1, TRUE)
    ELSE ReconcileTotal(doc.title.val, BuildScenes(doc.scenes),
                        TotalArg(doc, BuildScenes(doc.scenes)))

\* the provider called outside the try block: its exception leaves generate
\* as it was raised
generateProviderOutsideTry(in) ==
    IF in.blank THEN Raised(ValueError(<<"Input text cannot be empty">>), 0, FALSE)
    ELSE IF in.response = "raises"
    THEN Raised(RuntimeError(<<"provider error">>), 0, TRUE)
    ELSE IF in.response = "invalid_json"
    THEN Raised(ValueError(<<"Failed to parse LLM response as JSON">>), 0, TRUE)
    ELSE GenerateFromDocument(in.document)

generate(in) ==
    IF in.blank THEN Raised(ValueError(<<"Input text cannot be empty">>), 0, FALSE)
    ELSE IF in.response = "raises"
    THEN Raised(ValueError(<<"Script generation failed", "provider error">>), 0, TRUE)
    ELSE IF in.response = "invalid_json"
    THEN Raised(ValueError(<<"Failed to parse LLM response as JSON">>), 0, TRUE)
    ELSE GenerateFromDocument(in.document)

\* --------------------------------------------------- generate_video_from_text
VARIABLES
    input,            \* the input text and the provider's response of this run
    pc,               \* the position of generate_video_from_text
    result,           \* what script_generator.generate did (Step 1)
    idx,              \* the position of the binding loop in video_script.scenes
    assets,           \* the keys of the assets dict: <<role, scene_number>>
    calls,            \* the asset manager's calls so far, in order
    audio_files,      \* the audio files of the temp directory, by scene number
    compose_calls,    \* how often video_composer.compose was invoked
    images,           \* the colour of bg_scene_<n>.png, by scene number
    composer_log,     \* the calls compose made, in order
    timeline,         \* the scene units compose concatenated, in order
    final_duration,   \* the duration of the clip handed to write_videofile
    error,            \* the exception generate_video_from_text raised
    video_path        \* TRUE when generate_video_from_text returned a path

vars == <<input, pc, result, idx, assets, calls, audio_files, images,
          compose_calls, composer_log, timeline, final_duration, error, video_path>>

NotRun == Raised(NoError, 0, FALSE)

\* ------------------------------------- SimpleAssetManager.get_background_image
\* scene_data.get("background_color", "#000000") of a document that declares
\* no background colour
DEFAULT_BACKGROUND_COLOR == "#000000"

\* the output directory without background images
NoImages ==
    [n \in {} |-> [from_hue |-> FALSE, hue |-> 0, saturation |-> 0, lightness |-> 0,
                   hex |-> ""]]

\* a hue step of half a turn instead of the golden angle
HueHalfTurn(scene_number) == (scene_number * 360) % 720

\* (scene_number * 137.5) % 360 in half degrees; the division by 360.0 that
\* follows maps different half degrees to different fractions
Hue(scene_number) == (scene_number * 275) % 720

\* The colour of the image (lines 82-90): the colour given, or for None or
\* "" the hue of the scene number with saturation 0.6 and lightness 0.3
\* (in tenths)
BackgroundColor(scene_number, color) ==
    IF color # ""
    THEN [from_hue |-> FALSE, hue |-> 0, saturation |-> 0, lightness |-> 0, hex |-> color]
    ELSE [from_hue |-> TRUE, hue |-> Hue(scene_number), saturation |-> 6,
          lightness |-> 3, hex |-> ""]

\* image.save(bg_scene_<n>.png): the file is created or overwritten
SaveImage(files, n, colour) ==
    [k \in DOMAIN files \cup {n} |-> IF k = n THEN colour ELSE files[k]]

\* the temp directory without audio files
NoFiles == [n \in {} |-> [from |-> 0, length |-> 0]]

\* the lengths (in ticks) of the audio a successful synthesis can produce:
\* shorter than, as long as and longer than a scene of MaxDuration
AudioLengths == {MaxDuration - 1, MaxDuration, MaxDuration + 1}

\* tts.save(str(output_path)): the file audio_scene_<n>.mp3 is created or
\* overwritten with the audio synthesized for the scene at position from
SaveAudio(files, n, from, length) ==
    [k \in DOMAIN files \cup {n} |->
        IF k = n THEN [from |-> from, length |-> length] ELSE files[k]]

video_script == result.script

\* the audio files an earlier run has left in the temp directory: one of
\* every scene number (from 0: synthesized for no scene of this run)
StaleFiles == [n \in 1..MaxSceneNumber |-> [from |-> 0, length |-> MaxDuration]]

InitWith(inputs, files) ==
    /\ input \in inputs
    /\ pc = "generate"
    /\ result = NotRun
    /\ idx = 0
    /\ assets = {}
    /\ calls = <<>>
    /\ audio_files \in files
    /\ images = NoImages
    /\ compose_calls = 0
    /\ composer_log = <<>>
    /\ timeline = <<>>
    /\ final_duration = 0
    /\ error = NoError
    /\ video_path = FALSE

Init == InitWith(PipelineInputs, {StaleFiles})

\* the failure of Step 1 printed and the run going on to Step 3 with the
\* script it has
GenerateScriptContinue ==
    /\ pc = "generate"
    /\ result' = generate(input)
    /\ IF result'.ok
       THEN /\ pc' = "background"
            /\ idx' = 1
       ELSE /\ pc' = "compose"
            /\ idx' = idx
    /\ UNCHANGED <<input, assets, calls, audio_files, images, compose_calls,
                   composer_log, timeline, final_duration, error, video_path>>

\* Step 1: script_generator.generate(input_text); any exception becomes
\* RuntimeError("Script generation failed: ...")
GenerateScript ==
    /\ pc = "generate"
    /\ result' = generate(input)
    /\ IF result'.ok
       THEN /\ pc' = "background"
            /\ idx' = 1
            /\ error' = error
       ELSE /\ pc' = "raised"
            /\ idx' = idx
            /\ error' = RuntimeError(<<"Script generation failed">> \o result'.error.msg)
    /\ UNCHANGED <<input, assets, calls, audio_files, images, compose_calls,
                   composer_log, timeline, final_duration, video_path>>

\* the background failure handled like the audio failure: printed, and the
\* loop goes on without the entry
BindBackgroundNonFatal ==
    /\ pc = "background"
    /\ LET scene == video_script.scenes[idx]
           scene_num == scene.scene_number
       IN \E ok \in BOOLEAN :
            /\ calls' = Append(calls, [op |-> "get_background_image",
                                       scene_number |-> scene_num,
                                       index |-> idx, ok |-> ok])
            /\ assets' = IF ok THEN assets \cup {<<"bg", scene_num>>} ELSE assets
            /\ images' = IF ok
                         THEN SaveImage(images, scene_num,
                                        BackgroundColor(scene_num, DEFAULT_BACKGROUND_COLOR))
                         ELSE images
            /\ pc' = "audio"
    /\ UNCHANGED <<input, result, idx, audio_files, compose_calls,
                   composer_log, timeline, final_duration, error, video_path>>

\* Step 2, first half of one loop iteration: asset_manager.get_background_image
\* for the scene at idx; its failure aborts the run and reports the scene.
BindBackground ==
    /\ pc = "background"
    /\ LET scene == video_script.scenes[idx]
           scene_num == scene.scene_number
       IN \E ok \in BOOLEAN :
            /\ calls' = Append(calls, [op |-> "get_background_image",
                                       scene_number |-> scene_num,
                                       index |-> idx, ok |-> ok])
            /\ IF ok
               THEN /\ assets' = assets \cup {<<"bg", scene_num>>}
                    /\ images' = SaveImage(images, scene_num,
                                           BackgroundColor(scene_num,
                                                           DEFAULT_BACKGROUND_COLOR))
                    /\ pc' = "audio"
                    /\ error' = error
               ELSE /\ assets' = assets
                    /\ images' = images
                    /\ pc' = "raised"
                    /\ error' = RuntimeErrorForScene(
                                    <<"Failed to generate background for scene">>,
                                    scene_num)
    /\ UNCHANGED <<input, result, idx, audio_files, compose_calls,
                   composer_log, timeline, final_duration, video_path>>

\* SimpleAssetManager.generate_audio raises for an empty or blank text
AudioCanSucceed(text) == text # ""

\* the audio entry bound before the synthesis is attempted
BindAudioKeyFirst ==
    /\ pc = "audio"
    /\ LET scene == video_script.scenes[idx]
           scene_num == scene.scene_number
       IN \E ok \in BOOLEAN :
            /\ ok => AudioCanSucceed(scene.dialogue)
            /\ calls' = Append(calls, [op |-> "generate_audio",
                                       scene_number |-> scene_num,
                                       index |-> idx, ok |-> ok])
            /\ assets' = assets \cup {<<"audio", scene_num>>}
            /\ IF ok
               THEN \E length \in AudioLengths :
                        audio_files' = SaveAudio(audio_files, scene_num, idx, length)
               ELSE audio_files' = audio_files
    /\ IF idx < Len(video_script.scenes)
       THEN pc' = "background" /\ idx' = idx + 1
       ELSE pc' = "compose" /\ idx' = idx
    /\ UNCHANGED <<input, result, images, compose_calls, composer_log, timeline,
                   final_duration, error, video_path>>

\* a failed synthesis tried again for the same scene
BindAudioRetry ==
    /\ pc = "audio"
    /\ Len(calls) < 3 * MaxScenes
    /\ LET scene == video_script.scenes[idx]
           scene_num == scene.scene_number
       IN \E ok \in BOOLEAN :
            /\ ok => AudioCanSucceed(scene.dialogue)
            /\ calls' = Append(calls, [op |-> "generate_audio",
                                       scene_number |-> scene_num,
                                       index |-> idx, ok |-> ok])
            /\ assets' = IF ok THEN assets \cup {<<"audio", scene_num>>} ELSE assets
            /\ IF ok
               THEN \E length \in AudioLengths :
                        audio_files' = SaveAudio(audio_files, scene_num, idx, length)
               ELSE audio_files' = audio_files
            /\ IF ~ok
               THEN pc' = "audio" /\ idx' = idx
               ELSE IF idx < Len(video_script.scenes)
               THEN pc' = "background" /\ idx' = idx + 1
               ELSE pc' = "compose" /\ idx' = idx
    /\ UNCHANGED <<input, result, images, compose_calls, composer_log, timeline,
                   final_duration, error, video_path>>

\* Step 2, second half of one loop iteration: asset_manager.generate_audio
\* for the scene at idx; its failure is printed and the loop goes on.
BindAudio ==
    /\ pc = "audio"
    /\ LET scene == video_script.scenes[idx]
           scene_num == scene.scene_number
       IN \E ok \in BOOLEAN :
            /\ ok => AudioCanSucceed(scene.dialogue)
            /\ calls' = Append(calls, [op |-> "generate_audio",
                                       scene_number |-> scene_num,
                                       index |-> idx, ok |-> ok])
            /\ assets' = IF ok THEN assets \cup {<<"audio", scene_num>>} ELSE assets
            /\ IF ok
               THEN \E length \in AudioLengths :
                        audio_files' = SaveAudio(audio_files, scene_num, idx, length)
               ELSE audio_files' = audio_files
    /\ IF idx < Len(video_script.scenes)
       THEN pc' = "background" /\ idx' = idx + 1
       ELSE pc' = "compose" /\ idx' = idx
    /\ UNCHANGED <<input, result, images, compose_calls, composer_log, timeline,
                   final_duration, error, video_path>>

\* ------------------------------------------------ MoviePyVideoComposer.compose
\* loops = int(scene.duration_seconds / audio_clip.duration) + 1
Loops(a, d) == (d \div a) + 1

\* concatenate_videoclips([audio_clip] * loops): the video concatenation of
\* MoviePy reads clip.size of every clip it is given, and an AudioFileClip
\* has no size: the call raises AttributeError whatever a and loops are
ConcatenateAudioRaises(a, loops) == TRUE

\* The audio of a scene unit (lines 148-164): the file of length a is cut to
\* the scene's duration d, looped and cut, or used as it is; an exception
\* (the file cannot be loaded, the loop cannot be built) is printed and the
\* unit stays without audio.
AttachAudio(a, d, corrupt) ==
    IF corrupt THEN [attached |-> FALSE, length |-> 0, failed |-> TRUE]
    ELSE IF a > d THEN [attached |-> TRUE, length |-> d, failed |-> FALSE]
    ELSE IF a < d
    THEN IF ConcatenateAudioRaises(a, Loops(a, d))
         THEN [attached |-> FALSE, length |-> 0, failed |-> TRUE]
         ELSE [attached |-> TRUE, length |-> d, failed |-> FALSE]
    ELSE [attached |-> TRUE, length |-> a, failed |-> FALSE]

\* audio_key in assets and assets[audio_key].exists()
AudioAvailable(scene, bound, files) ==
    /\ <<"audio", scene.scene_number>> \in bound
    /\ scene.scene_number \in DOMAIN files

\* the try around the audio removed: its exception leaves _create_scene_clip
SceneClipRaisesUncaught(scene, bound, files, corrupt) ==
    \/ <<"bg", scene.scene_number>> \notin bound
    \/ /\ AudioAvailable(scene, bound, files)
       /\ AttachAudio(files[scene.scene_number].length, scene.duration_seconds,
                      corrupt).failed

\* the audio asset as mandatory as the background asset
SceneClipRaisesWithoutAudio(scene, bound, files, corrupt) ==
    \/ <<"bg", scene.scene_number>> \notin bound
    \/ ~AudioAvailable(scene, bound, files)

\* _create_scene_clip raises: the background asset is missing (lines 132-134)
SceneClipRaises(scene, bound, files, corrupt) ==
    <<"bg", scene.scene_number>> \notin bound

\* the unit taking the length of the audio file when audio is attached
create_scene_clip_stretched(scene, bound, files, corrupt) ==
    LET available == AudioAvailable(scene, bound, files)
        audio == IF available
                 THEN AttachAudio(files[scene.scene_number].length,
                                  scene.duration_seconds, corrupt)
                 ELSE [attached |-> FALSE, length |-> 0, failed |-> FALSE]
    IN [scene_number |-> scene.scene_number,
        duration |-> IF audio.attached THEN files[scene.scene_number].length
                     ELSE scene.duration_seconds,
        display_text |-> scene.display_text,
        has_audio |-> audio.attached,
        audio_length |-> audio.length,
        audio_from |-> IF audio.attached THEN files[scene.scene_number].from ELSE 0,
        loaded_length |-> IF available /\ ~corrupt
                          THEN files[scene.scene_number].length ELSE 0,
        audio_failed |-> audio.failed]

\* MoviePyVideoComposer._create_scene_clip: the scene unit of one scene,
\* background and caption held for the scene's duration, with the audio
\* of the bound file when there is one; audio_from is the position of the
\* scene the attached audio was synthesized for, 0 without audio, and
\* loaded_length the length of the file AudioFileClip loaded, 0 if none
create_scene_clip(scene, bound, files, corrupt) ==
    LET available == AudioAvailable(scene, bound, files)
        audio == IF available
                 THEN AttachAudio(files[scene.scene_number].length,
                                  scene.duration_seconds, corrupt)
                 ELSE [attached |-> FALSE, length |-> 0, failed |-> FALSE]
    IN [scene_number |-> scene.scene_number,
        duration |-> scene.duration_seconds,
        display_text |-> scene.display_text,
        has_audio |-> audio.attached,
        audio_length |-> audio.length,
        audio_from |-> IF audio.attached THEN files[scene.scene_number].from ELSE 0,
        loaded_length |-> IF available /\ ~corrupt
                          THEN files[scene.scene_number].length ELSE 0,
        audio_failed |-> audio.failed]

\* Constructing the clips of a scene (ImageClip, resized, TextClip,
\* CompositeVideoClip; lines 139-143 and 167) raises inside MoviePy for the
\* scene at position broken, 0 when it raises for none
ClipLibraryRaises(i, broken) == i = broken

\* the position of the first scene whose clip cannot be built, 0 if none
FirstFailingClip(scenes, bound, files, corrupted, broken) ==
    LET failing == {i \in 1..Len(scenes) :
                        \/ SceneClipRaises(scenes[i], bound, files, i \in corrupted)
                        \/ ClipLibraryRaises(i, broken)}
    IN IF failing = {} THEN 0 ELSE CHOOSE i \in failing : \A j \in failing : i <= j

\* concatenate_videoclips(video_clips, method="compose"): the clips follow
\* one another, each starting where the one before it ends
RECURSIVE ConcatenatedDuration(_)
ConcatenatedDuration(clips) ==
    IF clips = <<>> THEN 0
    ELSE clips[1].duration + ConcatenatedDuration(Tail(clips))

\* the scenes whose bound audio file compose may find unreadable
Corruptible(scenes, bound, files) ==
    {i \in 1..Len(scenes) : AudioAvailable(scenes[i], bound, files)}

\* One entry of the composer's record of what it did: the clip of the scene
\* at position index was built (or building it raised), a call on the whole
\* timeline (index 0), or the close of one clip.
ClipEvent(i, raised) == [op |-> "create_scene_clip", index |-> i, raised |-> raised]
TimelineEvent(op, raised) == [op |-> op, index |-> 0, raised |-> raised]
CloseEvent(i) == [op |-> "close", index |-> i, raised |-> ""]

\* the encoder called once per clip as soon as the clip exists
ComposerLogEager(n, failing, cause, rendered) ==
    IF failing # 0
    THEN [k \in 1..(2 * failing - 1) |->
             IF k % 2 = 1
             THEN ClipEvent((k + 1) \div 2, IF k = 2 * failing - 1 THEN cause ELSE "")
             ELSE TimelineEvent("write_videofile", "")]
    ELSE [k \in 1..(2 * n) |->
             IF k % 2 = 1 THEN ClipEvent((k + 1) \div 2, "")
             ELSE TimelineEvent("write_videofile", "")]

\* The calls of compose in program order (lines 87-111): the clips in list
\* order up to the first that raises; then, if there is a clip, the
\* concatenation and the encoder; the closes only after the encoder returned.
ComposerLog(n, failing, cause, rendered) ==
    IF failing # 0
    THEN [i \in 1..failing |-> ClipEvent(i, IF i = failing THEN cause ELSE "")]
    ELSE IF n = 0 THEN <<>>
    ELSE [i \in 1..n |-> ClipEvent(i, "")]
         \o <<TimelineEvent("concatenate_videoclips", ""),
              TimelineEvent("write_videofile", IF rendered THEN "" ELSE "encoder")>>
         \o (IF rendered
             THEN <<TimelineEvent("close", "")>> \o [i \in 1..n |-> CloseEvent(i)]
             ELSE <<>>)

\* what compose did: the path returned or the exception, the clips it
\* concatenated and the duration of the concatenation
Composed(clips, log) ==
    [ok |-> TRUE, error |-> NoError, clips |-> clips,
     duration |-> ConcatenatedDuration(clips), log |-> log]
ComposeRaised(e, clips, log) ==
    [ok |-> FALSE, error |-> e, clips |-> clips,
     duration |-> ConcatenatedDuration(clips), log |-> log]

\* the check of line 92 removed
NoClipsNever(video_clips) == FALSE

\* not video_clips (line 92)
NoClips(video_clips) == video_clips = <<>>

\* MoviePyVideoComposer.compose(script, output_path, assets): one clip per
\* scene in list order, concatenated and handed to the encoder; every
\* exception becomes RuntimeError("Failed to compose video: ...")
compose(script, bound, files, corrupted, broken, rendered) ==
    LET scenes == script.scenes
        failing == FirstFailingClip(scenes, bound, files, corrupted, broken)
        missing == failing # 0 /\ SceneClipRaises(scenes[failing], bound, files,
                                                  failing \in corrupted)
        cause == IF missing THEN "background" ELSE "library"
        video_clips == [i \in 1..Len(scenes) |->
                           create_scene_clip(scenes[i], bound, files, i \in corrupted)]
        log == ComposerLog(Len(scenes), failing, cause, rendered)
    IN IF missing
       THEN ComposeRaised(RuntimeErrorForScene(
                              <<"Failed to compose video",
                                "Background asset not found for scene">>,
                              scenes[failing].scene_number),
                          <<>>, log)
       ELSE IF failing # 0
       THEN ComposeRaised(RuntimeError(<<"Failed to compose video",
                                         "error raised by MoviePy">>), <<>>, log)
       ELSE IF NoClips(video_clips)
       THEN ComposeRaised(RuntimeError(<<"Failed to compose video",
                                         "No video clips generated from script">>),
                          <<>>, log)
       ELSE IF ~rendered
       THEN ComposeRaised(RuntimeError(<<"Failed to compose video",
                                         "error raised by the encoder">>),
                          video_clips, log)
       ELSE Composed(video_clips, log)

\* the exception of compose as generate_video_from_text raises it (line 122)
CompositionFailed(e) == [e EXCEPT !.msg = <<"Video composition failed">> \o e.msg]

\* What can go wrong in one call of compose besides a clip that raises: the
\* audio files that cannot be loaded and the encoder.  When the clip at
\* position broken raises, no clip is kept and the encoder is not reached,
\* so these choices are not made.
ComposeChoices(broken) ==
    IF broken = 0
    THEN [corrupted |-> SUBSET Corruptible(video_script.scenes, assets, audio_files),
          rendered |-> BOOLEAN]
    ELSE [corrupted |-> {{}}, rendered |-> {TRUE}]

\* Step 3: video_composer.compose(script, output_path, assets); any
\* exception becomes RuntimeError("Video composition failed: ...")
Compose ==
    /\ pc = "compose"
    /\ compose_calls' = compose_calls + 1
    /\ \E broken \in 0..Len(video_script.scenes) :
       \E corrupted \in ComposeChoices(broken).corrupted,
          rendered \in ComposeChoices(broken).rendered :
       LET done == compose(video_script, assets, audio_files, corrupted, broken,
                           rendered)
       IN /\ composer_log' = done.log
          /\ timeline' = done.clips
          /\ final_duration' = done.duration
          /\ IF done.ok
             THEN /\ pc' = "returned"
                  /\ video_path' = TRUE
                  /\ error' = error
             ELSE /\ pc' = "raised"
                  /\ video_path' = video_path
                  /\ error' = CompositionFailed(done.error)
    /\ UNCHANGED <<input, result, idx, assets, calls, audio_files, images>>

\* compose called by itself on a script and an asset mapping
ComposeDirect ==
    /\ pc = "compose"
    /\ compose_calls' = compose_calls + 1
    /\ \E broken \in 0..Len(video_script.scenes) :
       \E corrupted \in ComposeChoices(broken).corrupted,
          rendered \in ComposeChoices(broken).rendered :
       LET done == compose(video_script, assets, audio_files, corrupted, broken,
                           rendered)
       IN /\ composer_log' = done.log
          /\ timeline' = done.clips
          /\ final_duration' = done.duration
          /\ pc' = IF done.ok THEN "returned" ELSE "raised"
          /\ video_path' = done.ok
          /\ error' = done.error
    /\ UNCHANGED <<input, result, idx, assets, calls, audio_files, images>>

Next ==
    \/ GenerateScript
    \/ BindBackground
    \/ BindAudio
    \/ Compose

Spec == Init /\ [][Next]_vars

\* The reconciler alone, over every input of Inputs.
InitGenerate == InitWith(Inputs, {NoFiles})

NextGenerate == GenerateScript

SpecGenerate == InitGenerate /\ [][NextGenerate]_vars

\* The composer alone, called on scripts of zero to MaxScenes scenes and on
\* every asset mapping over the scene numbers.
ComposeScenes ==
    [scene_number : 1..MaxSceneNumber, dialogue : {"A"}, display_text : {"A"},
     duration_seconds : {MaxDuration}]

ComposeScripts ==
    {[title |-> "T", scenes |-> scenes,
      total_duration_seconds |-> SumDurations(scenes)] :
         scenes \in UNION {[1..n -> ComposeScenes] : n \in 0..MaxScenes}}

ComposeAssets == SUBSET ({"bg", "audio"} \X (1..MaxSceneNumber))

ComposeFiles ==
    {NoFiles} \cup
    {[n \in 1..MaxSceneNumber |-> [from |-> 0, length |-> a]] : a \in AudioLengths}

NoInput == [blank |-> FALSE, response |-> "document", document |-> EmptyDocument]

InitCompose ==
    /\ input = NoInput
    /\ pc = "compose"
    /\ \E script \in ComposeScripts : result = Returned(script, Len(script.scenes))
    /\ idx = 0
    /\ assets \in ComposeAssets
    /\ calls = <<>>
    /\ audio_files \in ComposeFiles
    /\ images = NoImages
    /\ compose_calls = 0
    /\ composer_log = <<>>
    /\ timeline = <<>>
    /\ final_duration = 0
    /\ error = NoError
    /\ video_path = FALSE

NextCompose == ComposeDirect

SpecCompose == InitCompose /\ [][NextCompose]_vars

\* The asset manager alone: get_background_image called for scene numbers
\* up to MaxHueSceneNumber, with and without a colour.
HueSceneNumbers == -1..MaxHueSceneNumber

GetBackgroundImage ==
    /\ pc = "images"
    /\ \E n \in HueSceneNumbers, color \in {"", DEFAULT_BACKGROUND_COLOR} :
           /\ Cardinality(DOMAIN images \cup {n}) <= MaxImages
           /\ images' = SaveImage(images, n, BackgroundColor(n, color))
    /\ UNCHANGED <<input, pc, result, idx, assets, calls, audio_files, compose_calls,
                   composer_log, timeline, final_duration, error, video_path>>

InitBackground ==
    /\ input = NoInput
    /\ pc = "images"
    /\ result = NotRun
    /\ idx = 0
    /\ assets = {}
    /\ calls = <<>>
    /\ audio_files = NoFiles
    /\ images = NoImages
    /\ compose_calls = 0
    /\ composer_log = <<>>
    /\ timeline = <<>>
    /\ final_duration = 0
    /\ error = NoError
    /\ video_path = FALSE

NextBackground == GetBackgroundImage

SpecBackground == InitBackground /\ [][NextBackground]_vars

\* ==================================================================== claims
document == input.document

\* generate has run on a document the provider answered
GenerateRan == pc # "generate"
Answered == ~input.blank /\ input.response = "document"

\* the sum of the scene durations of the returned script
SceneSum == SumDurations(video_script.scenes)

\* the distance of the declared total from the sum of the scene durations
DeclaredGap == Abs(document.total_duration_seconds.val - SceneSum)

AllEntriesBuild ==
    \A i \in 1..Len(document.scenes) :
        /\ document.scenes[i].scene_number.kind \in {"absent", "number"}
        /\ \/ document.scenes[i].duration_seconds.kind = "absent"
           \/ /\ document.scenes[i].duration_seconds.kind = "number"
              /\ document.scenes[i].duration_seconds.val >= 2

\* C2: a document with a title and at least one scene, all of duration
\* >= 0.1 s, is accepted for every numeric declared total, also 0, a
\* negative one and one below 0.1 s.
C2_DeclaredTotalNeverRejected ==
    ( /\ GenerateRan
      /\ Answered
      /\ document.has_scenes
      /\ document.title.kind = "string"
      /\ Len(document.scenes) >= 1
      /\ AllEntriesBuild
      /\ document.total_duration_seconds.kind = "number" )
    => result.ok

\* the duration the document gives the i-th scene: its number, or 3.0 s
DocumentDuration(i) ==
    IF document.scenes[i].duration_seconds.kind = "absent" THEN 60
    ELSE document.scenes[i].duration_seconds.val

\* C3: the returned total is the sum of the scene durations when the
\* declared total is 0.1 s or more away from it, the declared total itself
\* when it is closer, and every scene keeps the duration of the document.
C3_RepairChangesOnlyTotal ==
    result.ok =>
        /\ ( document.total_duration_seconds.kind = "number" /\ DeclaredGap >= 2 )
             => video_script.total_duration_seconds = SceneSum
        /\ ( document.total_duration_seconds.kind = "number" /\ DeclaredGap < 2 )
             => video_script.total_duration_seconds = document.total_duration_seconds.val
        /\ Len(video_script.scenes) = Len(document.scenes)
        /\ \A i \in 1..Len(document.scenes) :
               video_script.scenes[i].duration_seconds = DocumentDuration(i)

\* a script was returned whose declared total was kept although it is not
\* the sum of the scene durations
C3_Witness ==
    /\ result.ok
    /\ document.total_duration_seconds.kind = "number"
    /\ DeclaredGap = 1
    /\ video_script.total_duration_seconds # SceneSum

\* the message chain of the raised error names the field
NamesField(err, field) ==
    \E k \in 1..Len(err.msg) :
        \/ field = "scenes" /\ err.msg[k] = "Generated script missing 'scenes' field"
        \/ field = "title" /\ err.msg[k] \in {"Generated script missing 'title' field",
                                                "'title'"}

MissingFields ==
    (IF document.has_scenes THEN {} ELSE {"scenes"})
    \cup (IF document.title.kind = "absent" THEN {"title"} ELSE {})

\* C4: a document without the scenes key or without the title key makes
\* generate raise an error that names a missing field; no script is
\* returned and no Scene is built.
C4_MissingKeyRaises ==
    ( GenerateRan /\ Answered /\ MissingFields # {} )
    => /\ ~result.ok
       /\ result.script = NoScript
       /\ result.scenes_built = 0
       /\ \E f \in MissingFields : NamesField(result.error, f)

\* generate ran on a document that has scene entries and no title
C4_Witness ==
    /\ GenerateRan
    /\ Answered
    /\ document.has_scenes
    /\ Len(document.scenes) >= 1
    /\ AllEntriesBuild
    /\ document.title.kind = "absent"
    /\ ~result.ok

AllOmitSceneNumber ==
    \A i \in 1..Len(document.scenes) : document.scenes[i].scene_number.kind = "absent"

\* C5: when every scene entry omits scene_number, the i-th scene of the
\* returned script has scene_number i.
C5_PositionalNumbers ==
    ( result.ok /\ AllOmitSceneNumber )
    => /\ Len(video_script.scenes) = Len(document.scenes)
       /\ \A i \in 1..Len(video_script.scenes) : video_script.scenes[i].scene_number = i

\* a script was returned for two entries without scene_number that differ
\* in their other fields
C5_Witness ==
    /\ result.ok
    /\ AllOmitSceneNumber
    /\ Len(video_script.scenes) >= 2
    /\ document.scenes[1] # document.scenes[2]
    /\ video_script.scenes[2].scene_number = 2

\* C6: the scene numbers of a returned script are pairwise distinct.
C6_SceneNumbersDistinct ==
    result.ok =>
        \A i, j \in 1..Len(video_script.scenes) :
            i # j => video_script.scenes[i].scene_number # video_script.scenes[j].scene_number

\* C7: every scene of a returned script has scene_number >= 1.
C7_SceneNumbersPositive ==
    result.ok =>
        \A i \in 1..Len(video_script.scenes) : video_script.scenes[i].scene_number >= 1

\* C8: the scenes of a returned script are in ascending scene_number order,
\* and so are the scene units of the timeline compose concatenates.
C8_ScenesAscending ==
    /\ result.ok =>
           \A i, j \in 1..Len(video_script.scenes) :
               i < j => video_script.scenes[i].scene_number
                            <= video_script.scenes[j].scene_number
    /\ \A i, j \in 1..Len(timeline) :
           i < j => timeline[i].scene_number <= timeline[j].scene_number

\* the entries whose duration_seconds is absent, null or a non-numeric string
Undeclared(i) == document.scenes[i].duration_seconds.kind # "number"

\* no entry of the document fails for another reason than an absent, null
\* or non-numeric duration, and the total is absent
OnlyDurationsUndeclared ==
    /\ Answered
    /\ document.has_scenes
    /\ document.title.kind = "string"
    /\ Len(document.scenes) >= 1
    /\ document.total_duration_seconds.kind = "absent"
    /\ \A i \in 1..Len(document.scenes) :
           /\ document.scenes[i].scene_number.kind \in {"absent", "number"}
           /\ ~Undeclared(i) => document.scenes[i].duration_seconds.val >= 2

\* C9: an entry whose duration_seconds is absent or not numeric gets 3.0 s
\* in the returned script and never makes generate fail.
C9_UndeclaredDurationDefaults ==
    ( GenerateRan /\ OnlyDurationsUndeclared )
    => /\ result.ok
       /\ \A i \in 1..Len(document.scenes) :
              Undeclared(i) => video_script.scenes[i].duration_seconds = 60

\* C10: every scene handed to the asset manager or to the composer lasts
\* 0.1 s or more and has a non-empty dialogue or a non-empty display_text.
C10_BoundScenesHaveText ==
    /\ \A k \in 1..Len(calls) :
           LET scene == video_script.scenes[calls[k].index]
           IN /\ scene.duration_seconds >= 2
              /\ scene.dialogue # "" \/ scene.display_text # ""
    /\ \A i \in 1..Len(timeline) :
           /\ video_script.scenes[i].duration_seconds >= 2
           /\ video_script.scenes[i].dialogue # "" \/ video_script.scenes[i].display_text # ""

\* C11: an empty scenes list makes generate raise, with or without a
\* declared total, and no returned script has zero scenes.
C11_EmptySceneListRaises ==
    /\ ( GenerateRan /\ Answered /\ document.has_scenes /\ Len(document.scenes) = 0 )
       => ( ~result.ok /\ result.script = NoScript )
    /\ result.ok => Len(video_script.scenes) >= 1

\* generate ran on a titled document with an empty scenes list and a
\* declared total that is valid on its own
C11_Witness ==
    /\ GenerateRan
    /\ Answered
    /\ document.has_scenes
    /\ document.title.kind = "string"
    /\ Len(document.scenes) = 0
    /\ document.total_duration_seconds.kind = "number"
    /\ document.total_duration_seconds.val >= 2
    /\ ~result.ok

\* the fields of a script written out as a raw document
AsDocument(script) ==
    [title |-> TString(script.title), has_scenes |-> TRUE,
     scenes |-> [i \in 1..Len(script.scenes) |->
                    [scene_number |-> JNumber(script.scenes[i].scene_number),
                     dialogue |-> TString(script.scenes[i].dialogue),
                     display_text |-> TString(script.scenes[i].display_text),
                     duration_seconds |-> JNumber(script.scenes[i].duration_seconds)]],
     total_duration_seconds |-> JNumber(script.total_duration_seconds)]

\* generate applied to the returned script
Reconciled ==
    generate([blank |-> FALSE, response |-> "document",
              document |-> AsDocument(video_script)])

\* C12: generate applied to the fields of a script it returned returns a
\* script with the same scene numbers, scene durations and total.
C12_Idempotent ==
    result.ok =>
        LET again == Reconciled
        IN  /\ again.ok
            /\ Len(again.script.scenes) = Len(video_script.scenes)
            /\ \A i \in 1..Len(video_script.scenes) :
                   /\ again.script.scenes[i].scene_number
                          = video_script.scenes[i].scene_number
                   /\ again.script.scenes[i].duration_seconds
                          = video_script.scenes[i].duration_seconds
            /\ again.script.total_duration_seconds
                   = video_script.total_duration_seconds

\* a script was returned whose numbers, one duration and total the first
\* pass had to fill in or repair
C12_Witness ==
    /\ result.ok
    /\ Len(video_script.scenes) >= 2
    /\ document.scenes[1].scene_number.kind = "absent"
    /\ document.scenes[2].scene_number.kind = "number"
    /\ document.scenes[1].duration_seconds.kind = "absent"
    /\ document.total_duration_seconds.kind = "number"
    /\ DeclaredGap >= 2

\* the calls of get_background_image that failed
FailedBackgroundCalls ==
    {k \in 1..Len(calls) : calls[k].op = "get_background_image" /\ ~calls[k].ok}

\* C13: when get_background_image fails for a scene, the run raises an
\* error naming that scene; no audio is requested for it, nothing is
\* requested for a later scene, and compose is not invoked.
C13_BackgroundFailureAborts ==
    \A k \in FailedBackgroundCalls :
        /\ pc = "raised"
        /\ error.type = "RuntimeError"
        /\ error.msg = <<"Failed to generate background for scene">>
        /\ error.names_scene
        /\ error.scene = calls[k].scene_number
        /\ k = Len(calls)
        /\ \A j \in 1..Len(calls) : calls[j].index >= calls[k].index => j = k
        /\ compose_calls = 0
        /\ timeline = <<>>
        /\ ~video_path

\* the background of the second scene failed after the first scene was bound
C13_Witness ==
    \E k \in FailedBackgroundCalls :
        /\ calls[k].index = 2
        /\ <<"bg", video_script.scenes[1].scene_number>> \in assets
        /\ pc = "raised"

\* the outcome of generate_audio for the scene at position i: "ok",
\* "failed", or "none" when it was not called
AudioOutcome(i) ==
    IF \E k \in 1..Len(calls) :
           calls[k].op = "generate_audio" /\ calls[k].index = i /\ calls[k].ok
    THEN "ok"
    ELSE IF \E k \in 1..Len(calls) :
                calls[k].op = "generate_audio" /\ calls[k].index = i
    THEN "failed"
    ELSE "none"

\* C14: a failed generate_audio does not end the run; the unit of the
\* scene it failed for has no audio, and the unit of a scene whose audio
\* was synthesized and attached carries that scene's own audio.
C14_AudioFailureLeavesSceneSilent ==
    /\ ( calls # <<>> /\ compose_calls = 0
         /\ calls[Len(calls)].op = "generate_audio" )
       => pc \in {"background", "compose"}
    /\ pc = "compose" => Len(calls) = 2 * Len(video_script.scenes)
    /\ \A i \in 1..Len(timeline) :
           /\ AudioOutcome(i) = "failed" => ~timeline[i].has_audio
           /\ ( AudioOutcome(i) = "ok" /\ ~timeline[i].audio_failed )
              => ( timeline[i].has_audio /\ timeline[i].audio_from = i )

\* the asset entries bound under the keys of the scene at position j
EntriesOf(j) ==
    assets \cap {<<"bg", video_script.scenes[j].scene_number>>,
                 <<"audio", video_script.scenes[j].scene_number>>}

\* C15: the audio synthesis of one scene, failed or not, leaves the asset
\* entries of every other scene as they are: the run in which it fails and
\* the run in which it succeeds differ in that scene's audio entry only.
C15_AudioFailureIsolated ==
    [][ pc = "audio" =>
          \A j \in 1..Len(video_script.scenes) :
              j # idx => EntriesOf(j)' = EntriesOf(j) ]_vars

\* C16: no asset request is repeated: get_background_image and
\* generate_audio are each called at most once for each scene of the script.
C16_NoRetry ==
    \A j, k \in 1..Len(calls) :
        ( calls[j].op = calls[k].op /\ calls[j].index = calls[k].index ) => j = k

\* the run went on to its end after the synthesis for the first scene failed
C16_Witness ==
    /\ AudioOutcome(1) = "failed"
    /\ video_script.scenes[1].dialogue # ""
    /\ Len(video_script.scenes) >= 2
    /\ pc = "returned"

\* C17: every asset key (role, scene_number) is written at most once in a
\* run.
C17_SingleWriterPerKey ==
    \A j, k \in 1..Len(calls) :
        ( /\ calls[j].ok
          /\ calls[k].ok
          /\ calls[j].op = calls[k].op
          /\ calls[j].scene_number = calls[k].scene_number ) => j = k

\* C18: the audio attached to a scene unit has exactly the scene's
\* duration whenever an audio file of positive length was loaded for it,
\* be the file longer than, shorter than or as long as the scene.
C18_AudioMatchesDuration ==
    \A i \in 1..Len(timeline) :
        timeline[i].loaded_length > 0
        => /\ timeline[i].has_audio
           /\ timeline[i].audio_length = video_script.scenes[i].duration_seconds

\* compose has been called and has returned or raised
ComposeEnded == compose_calls > 0

\* the number of times compose called the encoder
WriteCalls ==
    Cardinality({k \in DOMAIN composer_log : composer_log[k].op = "write_videofile"})

\* the clip whose construction raised in compose, as a set of positions in
\* the composer's record
FailedClip ==
    {k \in DOMAIN composer_log :
        composer_log[k].op = "create_scene_clip" /\ composer_log[k].raised # ""}

\* MoviePy or the encoder raised in this call of compose
ExternalFailure ==
    \E k \in DOMAIN composer_log : composer_log[k].raised \in {"library", "encoder"}

\* C19: a failure while the audio of a scene is loaded or fitted stays
\* inside _create_scene_clip: the unit is built with background and caption
\* and without audio, every scene gets its clip, the audio of the other
\* scenes is attached, and compose itself fails only when MoviePy or the
\* encoder raised elsewhere.
C19_AudioFailureCaught ==
    compose_calls = 1 =>
        /\ FailedClip = {} => Len(timeline) = Len(video_script.scenes)
        /\ \A i \in 1..Len(timeline) :
               /\ timeline[i].audio_failed
                  => /\ ~timeline[i].has_audio
                     /\ timeline[i].duration = video_script.scenes[i].duration_seconds
                     /\ timeline[i].display_text = video_script.scenes[i].display_text
               /\ ( /\ <<"audio", video_script.scenes[i].scene_number>> \in assets
                    /\ ~timeline[i].audio_failed )
                  => timeline[i].has_audio
        /\ pc = "raised" => (ExternalFailure /\ ~error.names_scene)

\* compose returned a path although the audio file of the first scene could
\* not be loaded, and the second scene kept its audio
C19_Witness ==
    /\ pc = "returned"
    /\ Len(timeline) >= 2
    /\ <<"audio", video_script.scenes[1].scene_number>> \in assets
    /\ timeline[1].audio_failed
    /\ timeline[1].loaded_length = 0
    /\ timeline[2].has_audio

\* the sum of the durations of the scene units
RECURSIVE UnitSum(_)
UnitSum(units) ==
    IF Len(units) = 0 THEN 0
    ELSE units[Len(units)].duration + UnitSum(SubSeq(units, 1, Len(units) - 1))

\* C20: every scene unit lasts as long as its scene's duration_seconds, with
\* or without audio, and the clip handed to the encoder lasts as long as
\* the scene units together.
C20_NoRetiming ==
    (compose_calls = 1 /\ WriteCalls = 1) =>
        /\ Len(timeline) = Len(video_script.scenes)
        /\ \A i \in 1..Len(timeline) :
               timeline[i].duration = video_script.scenes[i].duration_seconds
        /\ final_duration = UnitSum(timeline)
        /\ final_duration = SceneSum

\* a timeline of two units of different durations was handed to the
\* encoder, one unit with audio cut from a longer file and one without audio
C20_Witness ==
    /\ pc = "returned"
    /\ Len(timeline) = 2
    /\ timeline[1].duration # timeline[2].duration
    /\ \E i, j \in 1..2 :
           /\ timeline[i].has_audio
           /\ timeline[i].loaded_length > timeline[i].duration
           /\ ~timeline[j].has_audio

\* C21: compose called on a script with no scenes raises, returns no path
\* and never calls write_videofile.
C21_EmptyScriptFails ==
    (ComposeEnded /\ Len(video_script.scenes) = 0) =>
        /\ pc = "raised"
        /\ error.type = "RuntimeError"
        /\ ~video_path
        /\ WriteCalls = 0

\* compose was called on a script with no scenes, with an asset mapping
\* that is not empty
C21_Witness ==
    /\ ComposeEnded
    /\ Len(video_script.scenes) = 0
    /\ assets # {}
    /\ pc = "raised"

\* the positions of the scene clips compose created and did not close
OpenClips ==
    {i \in 1..Len(video_script.scenes) :
        /\ \E k \in DOMAIN composer_log : composer_log[k] = ClipEvent(i, "")
        /\ \A k \in DOMAIN composer_log : composer_log[k] # CloseEvent(i)}

\* C22: when compose has returned or raised, every scene clip it created
\* has been closed.
C22_AllClipsClosed == ComposeEnded => OpenClips = {}

\* C23: compose is invoked at most once in a run and exactly once in a run
\* that returns a path; the encoder is called at most once, and only after
\* the clip of every scene of the script has been built.
C23_SingleRenderRequest ==
    /\ compose_calls <= 1
    /\ video_path => (compose_calls = 1 /\ WriteCalls = 1)
    /\ WriteCalls <= 1
    /\ \A k \in DOMAIN composer_log :
           composer_log[k].op = "write_videofile" =>
               \A i \in 1..Len(video_script.scenes) :
                   \E j \in 1..(k - 1) : composer_log[j] = ClipEvent(i, "")

\* a run over a script of two scenes returned a path
C23_Witness ==
    /\ video_path
    /\ Len(video_script.scenes) = 2
    /\ Len(calls) = 4
    /\ WriteCalls = 1

\* the background request that failed, as a set of positions in calls
FailedBackground ==
    {k \in DOMAIN calls : calls[k].op = "get_background_image" /\ ~calls[k].ok}

\* C24: a run ends with the path of the composer or with one error, never
\* both; the error names the stage that failed (script generation,
\* background binding, composition) and, when a background request or the
\* composition of one scene failed, the number of that scene.
C24_OneOutcomeNamingStageAndScene ==
    /\ video_path => (pc = "returned" /\ error = NoError /\ result.ok
                        /\ FailedBackground = {} /\ FailedClip = {})
    /\ pc = "raised" =>
           /\ ~video_path
           /\ error.type = "RuntimeError"
           /\ ~result.ok => error.msg[1] = "Script generation failed"
           /\ \A k \in FailedBackground :
                  /\ error.msg[1] = "Failed to generate background for scene"
                  /\ error.names_scene
                  /\ error.scene = calls[k].scene_number
           /\ compose_calls > 0 => error.msg[1] = "Video composition failed"
           /\ \A k \in FailedClip :
                  /\ error.names_scene
                  /\ error.scene
                         = video_script.scenes[composer_log[k].index].scene_number

\* the input is one generate rejects: a blank text, a provider that raises
\* or answers no JSON, a document without "scenes" or "title", with a scene
\* that cannot be built, or with no scene
RejectedInput ==
    \/ input.blank
    \/ input.response # "document"
    \/ ~document.has_scenes
    \/ document.title.kind = "absent"
    \/ ~AllEntriesBuild
    \/ Len(document.scenes) = 0

\* C25: when script generation fails, the run raises 'Script generation
\* failed' and get_background_image, generate_audio and compose are never
\* invoked.
C25_ScriptFailureStopsRun ==
    (GenerateRan /\ RejectedInput) =>
        /\ pc = "raised"
        /\ error.type = "RuntimeError"
        /\ error.msg[1] = "Script generation failed"
        /\ calls = <<>>
        /\ assets = {}
        /\ compose_calls = 0
        /\ composer_log = <<>>
        /\ ~video_path

\* generate built one scene and raised on the second
C25_Witness ==
    /\ GenerateRan
    /\ ~result.ok
    /\ result.scenes_built = 1
    /\ Len(document.scenes) = 2
    /\ pc = "raised"

\* the scene numbers whose image was coloured from the scene number
Hued == {n \in DOMAIN images : images[n].from_hue}

\* C26: an image made without a colour has the hue (scene_number * 137.5)
\* mod 360 (compared in tenths of a degree), saturation 0.6 and lightness
\* 0.3, whatever was made before it, and the images of two consecutive
\* scene numbers have different hues.
C26_GoldenAngleHue ==
    /\ \A n \in Hued :
           /\ 5 * images[n].hue = (n * 1375) % 3600
           /\ images[n].saturation = 6
           /\ images[n].lightness = 3
    /\ \A n \in Hued : (n + 1) \in Hued => images[n].hue # images[n + 1].hue

\* the images of two consecutive scene numbers were both made without a
\* colour
C26_Witness == \E n \in Hued : n > 0 /\ (n + 1) \in Hued

\* C27: the requests of a scene with a smaller number all come before the
\* requests of a scene with a larger number, the audio request of a scene
\* directly follows its background request, and the units of the timeline
\* are in ascending scene-number order.
C27_AscendingSceneOrder ==
    /\ \A k1, k2 \in DOMAIN calls :
           calls[k1].scene_number < calls[k2].scene_number => k1 < k2
    /\ \A k \in DOMAIN calls :
           calls[k].op = "generate_audio" =>
               /\ k > 1
               /\ calls[k - 1].op = "get_background_image"
               /\ calls[k - 1].index = calls[k].index
    /\ \A i, j \in DOMAIN timeline :
           timeline[i].scene_number < timeline[j].scene_number => i < j

\* the positions of the scenes the asset mapping has no background for
MissingBackground ==
    {i \in 1..Len(video_script.scenes) :
        <<"bg", video_script.scenes[i].scene_number>> \notin assets}

\* the positions of the scenes with no audio entry, or with an audio entry
\* whose file does not exist
MissingAudio ==
    {i \in 1..Len(video_script.scenes) :
        \/ <<"audio", video_script.scenes[i].scene_number>> \notin assets
        \/ video_script.scenes[i].scene_number \notin DOMAIN audio_files}

\* C28: compose raises without calling the encoder when a scene of the
\* script has no background entry, and the error of a clip that failed for
\* its missing background names that scene; with every background bound
\* and no failure of MoviePy or the encoder compose returns the path,
\* whatever audio entries or files are missing.
C28_BackgroundMandatoryAudioOptional ==
    ComposeEnded =>
        /\ MissingBackground # {} =>
               (pc = "raised" /\ ~video_path /\ WriteCalls = 0)
        /\ \A k \in FailedClip :
               composer_log[k].index \in MissingBackground =>
                   /\ error.names_scene
                   /\ error.scene
                          = video_script.scenes[composer_log[k].index].scene_number
        /\ (MissingBackground = {} /\ ~ExternalFailure
                /\ Len(video_script.scenes) > 0) =>
               (pc = "returned" /\ video_path /\ WriteCalls = 1)

\* the clip of a first scene without audio entry was built, and compose
\* raised for the missing background of the second scene
C28_Witness ==
    /\ ComposeEnded
    /\ pc = "raised"
    /\ MissingBackground = {2}
    /\ 1 \in MissingAudio
    /\ composer_log = <<ClipEvent(1, ""), ClipEvent(2, "background")>>
    /\ error.names_scene
    /\ error.scene = video_script.scenes[2].scene_number

\* the scene numbers of the script
ScriptNumbers ==
    {video_script.scenes[i].scene_number : i \in 1..Len(video_script.scenes)}

\* the scene numbers a generate_audio call of this run returned for
Synthesized ==
    {calls[k].scene_number :
        k \in {j \in DOMAIN calls : calls[j].op = "generate_audio" /\ calls[j].ok}}

\* C29: when compose is invoked the asset mapping has a background entry
\* for every scene of the script, audio entries only for scene numbers a
\* generate_audio call of this run returned for, no entry for a number
\* that is not in the script, and no audio entry whose file is one an
\* earlier run left behind.
C29_AssetsAtCompose ==
    (pc = "compose" \/ ComposeEnded) =>
        /\ \A n \in ScriptNumbers : <<"bg", n>> \in assets
        /\ \A key \in assets : key[1] = "audio" => key[2] \in Synthesized
        /\ \A key \in assets : key[2] \in ScriptNumbers
        /\ \A key \in assets :
               key[1] = "audio" =>
                   /\ key[2] \in DOMAIN audio_files
                   /\ audio_files[key[2]].from # 0

\* compose was invoked in a run that started with audio files of an earlier
\* run, in which the synthesis failed for the first scene and succeeded
\* for the second
C29_Witness ==
    /\ ComposeEnded
    /\ Len(calls) = 4
    /\ ~calls[2].ok
    /\ calls[4].ok
    /\ calls[2].scene_number # calls[4].scene_number
    /\ calls[2].scene_number \in DOMAIN audio_files
    /\ audio_files[calls[2].scene_number].from = 0

\* C30: generate returns a script or raises ValueError and nothing else:
\* blank input raises before the provider is called; a provider exception,
\* invalid JSON, a missing key and a validation failure raise ValueError;
\* when it raises, no script is handed out.
C30_ScriptOrValueError ==
    GenerateRan =>
        /\ result.ok => (result.error = NoError /\ Len(video_script.scenes) >= 1)
        /\ ~result.ok => (result.error.type = "ValueError" /\ video_script = NoScript)
        /\ input.blank => (~result.ok /\ ~result.provider_called)
        /\ (~input.blank /\ input.response \in {"raises", "invalid_json"}) => ~result.ok
        /\ (Answered /\ (~document.has_scenes \/ document.title.kind = "absent"))
               => ~result.ok
        /\ (Answered /\ ~AllEntriesBuild) => ~result.ok

\* generate raised on the total of a document after building its two scenes
C30_Witness ==
    /\ GenerateRan
    /\ ~result.ok
    /\ result.error.type = "ValueError"
    /\ result.scenes_built = 2
    /\ AllEntriesBuild
====
